---- MODULE Spec2Model ----
(***************************************************************************)
(* Request pipeline of src/main.js: session resolution, CSRF secret        *)
(* bootstrap, CSRF verification, token derivation, route dispatch and the  *)
(* UserController handlers create / login / validateUser /                 *)
(* validateUserData.  Every store round trip (session load, session save,  *)
(* findOne, create) is its own step, so requests interleave at the awaits. *)
(***************************************************************************)
EXTENDS Naturals, Sequences, FiniteSets, Bags

\* ------------------------------------------------------------- bounds
MaxInFlight == 2   \* requests being processed at the same time
MaxSessions == 1   \* session ids the session middleware may generate
MaxSecrets == 2    \* values crypto.randomBytes may return
MaxClock == 1      \* largest Date.now() (in seconds) seen by jwt.sign

\* ------------------------------------------------- program constants
PasswordMinLength == 8
ExpiresInSeconds == 3600

\* --------------------------------------------------------------- data
\* Strings the code inspects character by character are sequences.
EmailA == <<"a", "@", "b", ".", "c">>
EmailB == <<"b", "@", "b", ".", "c">>
EmailC == <<"c", "@", "b", ".", "c">>
EmailNoAt == <<"a", "b", ".", "c">>
EmailNoTld == <<"a", "@", "b">>
PassLong == <<"l", "o", "n", "g", "e", "n", "o", "u", "g", "h">>
PassOther == <<"w", "r", "o", "n", "g", "p", "a", "s", "s">>
PassShort == <<"s", "h", "o", "r", "t">>
Empty == <<>>      \* a field that is undefined or "" (both falsy)

NoBody == [absent |-> TRUE]
Body(n, s, e, p) == [name |-> n, surname |-> s, email |-> e, password |-> p]

Credentials(e, p) == [email |-> e, password |-> p]

\* Request bodies a client sends to POST /users.
CreateBodies ==
    { NoBody,
      Body(<<"A">>, <<"B">>, EmailA, PassLong),
      Body(<<"A">>, <<"B">>, EmailC, PassLong),
      Body(Empty, <<"B">>, EmailC, PassLong),
      Body(<<"A">>, <<"B">>, EmailNoAt, PassLong),
      Body(<<"A">>, <<"B">>, EmailNoTld, PassLong),
      Body(<<"A">>, <<"B">>, EmailC, PassShort) }

\* Request bodies a client sends to POST /login.
LoginBodies ==
    { NoBody,
      Credentials(EmailA, PassLong),
      Credentials(EmailA, PassOther),
      Credentials(EmailB, PassOther),
      Credentials(EmailC, PassLong) }

Methods == {"GET", "POST"}

\* The stored credential is derived from the raw password, never the raw text.
Hash(p) == <<"hash", p>>

\* A record of the credential store.  A relational record carries id, a
\* document record carries _id (0 stands for a field that is not there).
UserRec(id, oid, e, p) ==
    [id |-> id, _id |-> oid, name |-> <<"A">>, surname |-> <<"B">>,
     email |-> e, password |-> Hash(p), role |-> "User"]

NoIdentity == [id |-> 0, email |-> Empty]
NoSession == [exists |-> FALSE, csrfSecret |-> 0, user |-> NoIdentity]
NewSession == [exists |-> TRUE, csrfSecret |-> 0, user |-> NoIdentity]

NoResponse == [status |-> 0, body |-> [none |-> TRUE]]
NoError == "none"

VARIABLES
    users,       \* credential store: the set of user records
    sessions,    \* session store: session id -> saved session
    running,     \* the request whose synchronous stretch runs (Idle: none)
    waiting,     \* the requests waiting for a callback of a store (a bag)
    last,        \* the request that left the pipeline in the last step, with its
                 \* response (Idle when the last step answered no request)
    nextSid,     \* next session id express-session generates
    nextSecret,  \* next value crypto.randomBytes returns
    tokens,      \* secrets for which generateToken has derived a proof
    authType     \* process.env.TYPEAUTH

vars == <<users, sessions, running, waiting, last, nextSid, nextSecret, tokens, authType>>

Idle ==
    [pc |-> "idle", sid |-> 0, session |-> NoSession, loaded |-> NoSession,
     dirty |-> FALSE,
     fresh |-> FALSE, saved |-> "none", method |-> "GET", proof |-> 0,
     route |-> "other", body |-> NoBody, ran |-> {}, res |-> NoResponse,
     thrown |-> NoError, inserted |-> FALSE]

\* ------------------------------------------------------ credential store
\* UserModel.findOne({ email }) / findOne({ where: { email } }): the records
\* with that email (at most one, by the store's unique index).
findOne(email) == { u \in users : u.email = email }

\* user.comparePassword(password): the candidate against the stored proof.
comparePassword(user, password) == Hash(password) = user.password

\* user.id || user._id
identityOf(user) ==
    [id |-> IF user.id # 0 THEN user.id ELSE user._id, email |-> user.email]

\* ---------------------------------------------------- validateUserData
IsSpace(c) == c \in {" ", "\t", "\n"}

\* [^\s@]+ : a non-empty run without whitespace and without "@"
Plain(s) == Len(s) > 0 /\ \A i \in 1..Len(s) : ~IsSpace(s[i]) /\ s[i] # "@"

\* /^[^\s@]+@[^\s@]+\.[^\s@]+$/.test(email)
emailRegexTest(email) ==
    \E i \in 1..Len(email), j \in 1..Len(email) :
        /\ i < j
        /\ email[i] = "@"
        /\ email[j] = "."
        /\ Plain(SubSeq(email, 1, i - 1))
        /\ Plain(SubSeq(email, i + 1, j - 1))
        /\ Plain(SubSeq(email, j + 1, Len(email)))

RequiredMessage == "All fields (name, surname, email, password) are required."
EmailMessage == "Invalid email format."
PasswordMessage == "Password must be at least 8 characters long."

\* The message of the Error validateUserData throws, NoError when it returns.
validateUserData(userData) ==
    IF \/ userData.name = Empty \/ userData.surname = Empty
       \/ userData.email = Empty \/ userData.password = Empty
    THEN RequiredMessage
    ELSE IF ~emailRegexTest(userData.email) THEN EmailMessage
    ELSE IF Len(userData.password) < PasswordMinLength THEN PasswordMessage
    ELSE NoError

\* The identifiers bound in the controller module's scope: its imports, its
\* top-level let and its class.  The methods of UserController are properties
\* of the class, not bindings of the scope.
ModuleBindings == {"jwt", "logger", "dotenvExpand", "UserModel", "UserController"}

\* The message of the ReferenceError a call of an unbound identifier throws.
NotDefinedMessage == "validateUserData is not defined"

\* ------------------------------------------------------------ responses
IgnoredMethods == {"GET", "HEAD", "OPTIONS"}

BodyMissingMessage == "Request body is missing."
ConflictMessage == "User with this email already exists."
LoginFailedMessage == "Invalid email or password"
LoggedInMessage == "Logged in successfully"
AuthTypeMessage == "Invalid authentication type"
StoreFailure == "store operation failed"
DuplicateKey == "duplicate key"
DestructureError == "Cannot destructure property 'email' of 'req.body'"

\* express-session's hook on the end of the response: a session modified
\* since it was loaded or last saved is written to the store.
storeAtEnd(q) ==
    IF q.pc = "done" /\ q.dirty THEN [sessions EXCEPT ![q.sid] = q.session] ELSE sessions

\* res.status(status).json(body)
send(q, status, body) ==
    [q EXCEPT !.pc = "done", !.res = [status |-> status, body |-> body]]

\* The error handler registered before the routes answers a request that a
\* middleware handed to next(err); no later middleware and no route runs.
checkCSRFError(q, status, message) == send(q, status, [error |-> message])

\* jwt.sign(payload, secret, { expiresIn }) at time now: the claims of the token.
jwtSign(payload, expiresIn, now) ==
    [id |-> payload.id, email |-> payload.email, iat |-> now, exp |-> now + expiresIn]

\* --------------------------------------------------------------- Init
InitialUsers == { UserRec(1, 0, EmailA, PassLong), UserRec(0, 2, EmailB, PassOther) }

Init ==
    /\ users = InitialUsers
    /\ sessions = [s \in 1..MaxSessions |-> NoSession]
    /\ running = Idle
    /\ waiting = EmptyBag
    /\ last = Idle
    /\ nextSid = 1
    /\ nextSecret = 1
    /\ tokens = {}
    /\ authType \in {"JWT", "session", "JWS"}

\* ------------------------------------------------------------ event loop
\* Callbacks run to completion: a request runs from one callback of the store
\* (session loaded, session saved, query answered) to its next call of the
\* store or to its response, and no other request runs in between.
Awaits(pc) == pc \in {"saving", "login_findOne", "create_findOne", "create_insert"}
Left(pc) == pc \in {"done", "rejected"}

InFlight == BagCardinality(waiting) + (IF running = Idle THEN 0 ELSE 1)

\* The request goes on as q; others are the requests that stay waiting.
\* A request that has left holds nothing left to write.
advance(q, others) ==
    /\ running' = IF Left(q.pc) \/ Awaits(q.pc) THEN Idle ELSE q
    /\ waiting' = IF Awaits(q.pc) THEN others (+) SetToBag({q}) ELSE others
    /\ last' = IF Left(q.pc) THEN [q EXCEPT !.dirty = FALSE] ELSE Idle

\* The waiting requests without q, whose callback runs.
resumed(q) == waiting (-) SetToBag({q})

\* ------------------------------------------------------------ pipeline
\* app.use(sessionOptions): a request arrives; its cookie names a saved
\* session, which is loaded, or a new session with a new id is generated.
sessionMiddleware ==
    /\ running = Idle
    /\ InFlight < MaxInFlight
    /\ \E cookie \in 0..(nextSid - 1) :
          IF cookie # 0 /\ sessions[cookie].exists
          THEN /\ advance([Idle EXCEPT !.pc = "bootstrap", !.sid = cookie,
                                       !.session = sessions[cookie],
                                       !.loaded = sessions[cookie]], waiting)
               /\ UNCHANGED nextSid
          ELSE /\ nextSid <= MaxSessions
               /\ advance([Idle EXCEPT !.pc = "bootstrap", !.sid = nextSid,
                                       !.session = NewSession,
                                       !.loaded = NewSession], waiting)
               /\ nextSid' = nextSid + 1
    /\ UNCHANGED <<users, sessions, nextSecret, tokens, authType>>

\* A bootstrap that generates a secret on every request.
needsSecret_Always(session) == TRUE

\* if (!req.session.csrfSecret)
needsSecret(session) == session.csrfSecret = 0

\* A bootstrap that calls next() without waiting for the save.
afterBootstrap_NoWait(generated) == "csrf"

\* Where the bootstrap middleware hands the request next: to the callback of
\* req.session.save when it generated a secret, to the next middleware otherwise.
afterBootstrap(generated) == IF generated THEN "saving" ELSE "csrf"

\* The middleware initialising the CSRF secret of the session.
csrfSecretBootstrap ==
    LET q == running IN
    /\ q.pc = "bootstrap"
    /\ IF needsSecret(q.session)
       THEN /\ nextSecret <= MaxSecrets
            /\ advance([q EXCEPT !.session.csrfSecret = nextSecret,
                                 !.fresh = TRUE,
                                 !.pc = afterBootstrap(TRUE)], waiting)
            /\ nextSecret' = nextSecret + 1
       ELSE /\ advance([q EXCEPT !.pc = afterBootstrap(FALSE)], waiting)
            /\ UNCHANGED nextSecret
    /\ UNCHANGED <<users, sessions, nextSid, tokens, authType>>

\* The callback of req.session.save: next(err) on a failure, next() otherwise.
\* A session handed to save() counts as saved from then on, whatever the
\* outcome: the end of the response does not write it again.
\* next(err) skips every middleware that is not an error handler; the error
\* handler answers the request.
sessionSaveCallback ==
    /\ running = Idle
    /\ \E q \in BagToSet(waiting), err \in BOOLEAN :
          /\ q.pc = "saving"
          /\ IF err
             THEN LET q1 == checkCSRFError([q EXCEPT !.saved = "failed",
                                                     !.thrown = StoreFailure],
                                           500, "Internal Server Error") IN
                  /\ sessions' = storeAtEnd(q1)
                  /\ advance(q1, resumed(q))
             ELSE /\ sessions' = [sessions EXCEPT ![q.sid] = q.session]
                  /\ advance([q EXCEPT !.saved = "ok", !.pc = "csrf"], resumed(q))
    /\ UNCHANGED <<users, nextSid, nextSecret, tokens, authType>>

\* A proof derived from no secret of this server.
ForgedProof == MaxSecrets + 1

\* The proof a request carries verifies against the secret getSecret returns.
validProof(proof, session) == proof # 0 /\ proof = session.csrfSecret

\* A protection that takes any token for a proof, whatever secret it is bound to.
csrfPasses_AnyToken(method, proof, session) ==
    method \in IgnoredMethods \/ proof # 0

\* doubleCsrfProtection lets the request through.
csrfPasses(method, proof, session) ==
    method \in IgnoredMethods \/ validProof(proof, session)

\* app.use(doubleCsrfProtection), then checkCSRFError for a rejected request.
doubleCsrfProtection ==
    LET q == running IN
    /\ q.pc = "csrf"
    /\ \E method \in Methods, proof \in {0, ForgedProof} \cup tokens :
          LET q1 == [q EXCEPT !.method = method, !.proof = proof,
                              !.ran = @ \cup {"doubleCsrfProtection"}]
              q2 == IF csrfPasses(method, proof, q1.session)
                    THEN [q1 EXCEPT !.pc = "token"]
                    ELSE checkCSRFError(q1, 403, "invalid csrf token") IN
          /\ sessions' = storeAtEnd(q2)
          /\ advance(q2, waiting)
    /\ UNCHANGED <<users, nextSid, nextSecret, tokens, authType>>

\* res.locals.csrfToken = generateToken(req, res); next()
generateTokenMiddleware ==
    LET q == running IN
    /\ q.pc = "token"
    /\ tokens' = tokens \cup {q.session.csrfSecret}
    /\ advance([q EXCEPT !.ran = @ \cup {"generateToken"}, !.pc = "route"], waiting)
    /\ UNCHANGED <<users, sessions, nextSid, nextSecret, authType>>

\* A request no route of the controller takes (a page, a static view).
otherRoute ==
    LET q == running
        q1 == send([q EXCEPT !.route = "other", !.ran = @ \cup {"other"}],
                   200, [page |-> "view"]) IN
    /\ q.pc = "route"
    /\ sessions' = storeAtEnd(q1)
    /\ advance(q1, waiting)
    /\ UNCHANGED <<users, nextSid, nextSecret, tokens, authType>>

\* ------------------------------------------------------- UserController
\* The record create builds and hands to UserModel.create.
newUser(body) ==
    [id |-> Cardinality(users) + 1, _id |-> 0, name |-> body.name,
     surname |-> body.surname, email |-> body.email,
     password |-> Hash(body.password),
     role |-> IF "role" \in DOMAIN body THEN body.role ELSE "User"]

\* { ...createdUser.toJSON() } with delete userResponse.password
userResponse(u) ==
    [id |-> u.id, _id |-> u._id, name |-> u.name, surname |-> u.surname,
     email |-> u.email, role |-> u.role]

\* catch (error) of create: res.status(400).json({ error: error.message })
createCatch(q, message) == send([q EXCEPT !.thrown = message], 400, [error |-> message])

\* create, from its entry to the first await that reaches the store.
createEntry(q, body) ==
    LET q1 == [q EXCEPT !.route = "/users", !.body = body, !.ran = @ \cup {"create"}] IN
    IF body = NoBody THEN send(q1, 400, [error |-> BodyMissingMessage])
    ELSE IF "validateUserData" \notin ModuleBindings THEN createCatch(q1, NotDefinedMessage)
    ELSE IF validateUserData(body) # NoError THEN createCatch(q1, validateUserData(body))
    ELSE [q1 EXCEPT !.pc = "create_findOne"]

\* create, from the result of findOne to the call of UserModel.create.
createFound(q, storeOk) ==
    IF ~storeOk THEN createCatch(q, StoreFailure)
    ELSE IF findOne(q.body.email) # {} THEN send(q, 400, [error |-> ConflictMessage])
    ELSE [q EXCEPT !.pc = "create_insert"]

\* UserModel.create succeeds: the store is up and its unique index admits the email.
insertAdmitted(q, storeOk) == storeOk /\ findOne(q.body.email) = {}

\* create, from the result of UserModel.create to the response.
createInserted(q, storeOk) ==
    IF ~storeOk THEN createCatch(q, StoreFailure)
    ELSE IF ~insertAdmitted(q, storeOk) THEN createCatch(q, DuplicateKey)
    ELSE send([q EXCEPT !.inserted = TRUE], 201, userResponse(newUser(q.body)))

\* What one step of create does to the stores and to the request.
createStep(q, q2, others, admitted) ==
    /\ advance(q2, others)
    /\ users' = IF admitted THEN users \cup {newUser(q.body)} ELSE users
    /\ sessions' = storeAtEnd(q2)

\* UserController.create, one step per stretch between two awaits.
create ==
    /\ IF running.pc = "route"
       THEN /\ running.method = "POST"
            /\ \E body \in CreateBodies :
                  createStep(running, createEntry(running, body), waiting, FALSE)
       ELSE /\ running = Idle
            /\ \E q \in BagToSet(waiting), storeOk \in BOOLEAN :
                  /\ q.pc \in {"create_findOne", "create_insert"}
                  /\ IF q.pc = "create_findOne"
                     THEN createStep(q, createFound(q, storeOk), resumed(q), FALSE)
                     ELSE createStep(q, createInserted(q, storeOk), resumed(q),
                                     insertAdmitted(q, storeOk))
    /\ UNCHANGED <<nextSid, nextSecret, tokens, authType>>

\* A validateUser that returns the user found without comparing the password.
validateUser_NoCompare(email, password) == findOne(email)

\* validateUser: the user whose email and password match, none otherwise.
validateUser(email, password) ==
    { u \in findOne(email) : comparePassword(u, password) }

\* A token signed with expiresIn: '1m'.
signToken_OneMinute(user, now) == jwtSign(identityOf(user), 60, now)

\* jwt.sign({ id, email }, secret, { expiresIn: '1h' })
signToken(user, now) == jwtSign(identityOf(user), ExpiresInSeconds, now)

\* req.session.user = { id, email }
sessionLogin(session, user) == [session EXCEPT !.user = identityOf(user)]

\* login once validateUser has returned the set found (empty for null).
\* An assignment that leaves the session as it was loaded is no modification
\* to express-session (resave: false): the session is then not written back.
loginOutcome(q, found, now) ==
    IF found = {} THEN send(q, 401, [error |-> LoginFailedMessage])
    ELSE LET user == CHOOSE u \in found : TRUE IN
         IF authType = "JWT" THEN send(q, 200, [token |-> signToken(user, now)])
         ELSE IF authType = "session"
         THEN send([q EXCEPT !.session = sessionLogin(q.session, user),
                             !.dirty = @ \/ sessionLogin(q.session, user) # q.session],
                   200, [message |-> LoggedInMessage])
         ELSE send(q, 500, [error |-> AuthTypeMessage])

\* A rejection leaves login: the handler has no catch and writes no response.
loginRejects(q, message) == [q EXCEPT !.pc = "rejected", !.thrown = message]

\* login, from its entry to the await of findOne in validateUser.
loginEntry(q, body) ==
    LET q1 == [q EXCEPT !.route = "/login", !.body = body, !.ran = @ \cup {"login"}] IN
    IF body = NoBody THEN loginRejects(q1, DestructureError)
    ELSE [q1 EXCEPT !.pc = "login_findOne"]

\* login, from the result of findOne to the response.
loginFound(q, lookupOk, compareOk, now) ==
    IF ~lookupOk THEN loginRejects(q, StoreFailure)
    ELSE IF findOne(q.body.email) # {} /\ ~compareOk THEN loginRejects(q, StoreFailure)
    ELSE loginOutcome(q, validateUser(q.body.email, q.body.password), now)

\* What one step of login does to the stores and to the request.
loginStep(q2, others) ==
    /\ advance(q2, others)
    /\ sessions' = storeAtEnd(q2)

\* The times jwt.sign may read; no other branch of login reads the clock.
Clock == IF authType = "JWT" THEN 0..MaxClock ELSE {0}

\* The ways validateUser may end: bcrypt is reached only for a user found.
Outcomes(q) ==
    IF findOne(q.body.email) # {} THEN {"found", "lookupThrows", "compareThrows"}
    ELSE {"found", "lookupThrows"}

\* UserController.login with this.validateUser.
login ==
    /\ IF running.pc = "route"
       THEN /\ running.method = "POST"
            /\ \E body \in LoginBodies : loginStep(loginEntry(running, body), waiting)
       ELSE /\ running = Idle
            /\ \E q \in { w \in BagToSet(waiting) : w.pc = "login_findOne" } :
               \E outcome \in Outcomes(q), now \in Clock :
                  loginStep(loginFound(q, outcome # "lookupThrows",
                                       outcome # "compareThrows", now),
                            resumed(q))
    /\ UNCHANGED <<users, nextSid, nextSecret, tokens, authType>>

\* The framework's answer to a handler's rejected promise, where it has one:
\* the default error handler, whose body is the stack outside production.
defaultErrorHandler ==
    /\ last.pc = "rejected"
    /\ \E production \in BOOLEAN :
          last' = send(last, 500, [error |-> IF production THEN "Internal Server Error"
                                             ELSE last.thrown])
    /\ UNCHANGED <<users, sessions, running, waiting, nextSid, nextSecret, tokens, authType>>

Next ==
    \/ sessionMiddleware
    \/ csrfSecretBootstrap
    \/ sessionSaveCallback
    \/ doubleCsrfProtection
    \/ generateTokenMiddleware
    \/ otherRoute
    \/ create
    \/ login
    \/ defaultErrorHandler

Spec == Init /\ [][Next]_vars

\* ---------------------------------------------------------- properties
\* The requests in the pipeline and the one that has just left it.
Seen == BagToSet(waiting) \cup {running, last}

Answered(q, route) == q.pc = "done" /\ q.route = route /\ q.thrown = NoError

\* A registration whose four fields are present, whose email is well formed
\* and whose password is long enough.
ValidRegistration(q) ==
    /\ q.route = "/users"
    /\ q.pc = "done"
    /\ q.body # NoBody
    /\ q.body.name # Empty /\ q.body.surname # Empty
    /\ q.body.email # Empty /\ q.body.password # Empty
    /\ emailRegexTest(q.body.email)
    /\ Len(q.body.password) >= 8

\* C1: a valid registration is answered 201 with the stored record, without
\* its password and with the submitted email, and one record is persisted;
\* it is refused only when the email was already in the store.
C1_ValidRegistrationCreated ==
    ValidRegistration(last) =>
        IF last.res.status = 201
        THEN /\ "password" \notin DOMAIN last.res.body
             /\ last.res.body.email = last.body.email
             /\ last.inserted
             /\ Cardinality(findOne(last.body.email)) = 1
        ELSE findOne(last.body.email) # {}

\* C2: a registration with an email a record already holds is answered with
\* the conflict error, and no email is ever held by two records.
C2_DuplicateIsConflict ==
    /\ \A u1 \in users, u2 \in users : u1.email = u2.email => u1 = u2
    /\ (ValidRegistration(last) /\ ~last.inserted /\ findOne(last.body.email) # {})
          => last.res = [status |-> 400, body |-> [error |-> ConflictMessage]]

NoSuchUser(q) == findOne(q.body.email) = {}
WrongPassword(q) == \E u \in findOne(q.body.email) : ~comparePassword(u, q.body.password)
RightPassword(q) == \E u \in findOne(q.body.email) : comparePassword(u, q.body.password)

\* C3: a login with an unknown email and a login with a wrong password get
\* one and the same answer, 401 with the same body, no token is issued and
\* no identity is written into the session.
C3_SameAuthError ==
    (Answered(last, "/login") /\ (NoSuchUser(last) \/ WrongPassword(last))) =>
        /\ last.res = [status |-> 401, body |-> [error |-> LoginFailedMessage]]
        /\ "token" \notin DOMAIN last.res.body
        /\ last.session.user = last.loaded.user

C3_Witness ==
    /\ Answered(last, "/login")
    /\ WrongPassword(last)
    /\ last.res.status = 401

\* C4: in session mode a login with valid credentials leaves the session
\* store holding that user's { id, email } for the request's session, and
\* the 200 answer carries a message and no token.
C4_SessionHoldsIdentity ==
    (Answered(last, "/login") /\ RightPassword(last) /\ authType = "session") =>
        /\ sessions[last.sid].exists
        /\ \E u \in users :
              /\ u.email = last.body.email
              /\ sessions[last.sid].user.email = u.email
              /\ sessions[last.sid].user.id \in {u.id, u._id} \ {0}
        /\ last.res.status = 200
        /\ DOMAIN last.res.body = {"message"}

\* C5: in token mode a login with valid credentials returns a token whose
\* subject is the user's { id, email } and whose expiry is one hour after
\* its issue, and no identity is written into the session.
C5_TokenOneHour ==
    (Answered(last, "/login") /\ RightPassword(last) /\ authType = "JWT") =>
        /\ last.res.status = 200
        /\ DOMAIN last.res.body = {"token"}
        /\ \E u \in users :
              /\ u.email = last.body.email
              /\ last.res.body.token.email = u.email
              /\ last.res.body.token.id \in {u.id, u._id} \ {0}
        /\ last.res.body.token.exp = last.res.body.token.iat + 3600
        /\ last.session.user = NoIdentity
        /\ sessions[last.sid].user = NoIdentity

C5_Witness ==
    /\ Answered(last, "/login")
    /\ RightPassword(last)
    /\ authType = "JWT"
    /\ "token" \in DOMAIN last.res.body

\* A request the CSRF protection has looked at, whose method is not a safe
\* one and whose proof does not verify against the secret of its session.
Unproven(q) ==
    /\ "doubleCsrfProtection" \in q.ran
    /\ q.method \notin {"GET", "HEAD", "OPTIONS"}
    /\ ~(q.proof # 0 /\ q.proof = q.session.csrfSecret)

\* C6: a request that is not GET, HEAD or OPTIONS and carries no valid proof
\* ends in the CSRF rejection; nothing after the protection runs for it, no
\* record is inserted and no identity is written.
C6_UnprovenRejected ==
    \A q \in Seen :
        Unproven(q) =>
            /\ q.pc = "done"
            /\ q.res.status = 403
            /\ q.ran = {"doubleCsrfProtection"}
            /\ ~q.inserted
            /\ q.session.user = q.loaded.user

C6_Witness ==
    /\ Unproven(last)
    /\ last.fresh
    /\ last.res.status = 403

\* C7: whatever is thrown inside create or login is answered, with an error
\* of the taxonomy whose body is not the text of the exception.
C7_ThrownIsTranslated ==
    (last.route \in {"/users", "/login"} /\ last.thrown # NoError) =>
        /\ last.pc = "done"
        /\ last.res.status \in {400, 401, 500}
        /\ last.res.body.error # last.thrown

\* C8: a registration with a field missing is refused with the message of
\* the required fields, otherwise one with a malformed email with the message
\* of the email, otherwise one with a short password with the message of the
\* password; each with 400 and before the store is touched.
C8_ValidationMessages ==
    (last.route = "/users" /\ last.pc = "done" /\ last.body # NoBody) =>
        LET b == last.body
            missing == \/ b.name = Empty \/ b.surname = Empty
                       \/ b.email = Empty \/ b.password = Empty IN
        /\ missing =>
              last.res = [status |-> 400, body |-> [error |-> RequiredMessage]]
        /\ (~missing /\ ~emailRegexTest(b.email)) =>
              last.res = [status |-> 400, body |-> [error |-> EmailMessage]]
        /\ (~missing /\ emailRegexTest(b.email) /\ Len(b.password) < 8) =>
              last.res = [status |-> 400, body |-> [error |-> PasswordMessage]]
        /\ (missing \/ ~emailRegexTest(b.email) \/ Len(b.password) < 8) =>
              ~last.inserted

\* C9: for a request whose session had no secret, the protection, the token
\* derivation and the handlers run only once the save of the new secret has
\* succeeded, the store then holding that secret; when the save fails the
\* request is answered with an error and none of them has run.
C9_SavedBeforeContinuing ==
    \A q \in Seen :
        /\ (q.fresh /\ q.ran # {}) =>
              /\ q.saved = "ok"
              /\ sessions[q.sid].exists
              /\ sessions[q.sid].csrfSecret = q.session.csrfSecret
        /\ q.saved = "failed" =>
              /\ q.ran = {}
              /\ q.pc = "done"
              /\ q.thrown = StoreFailure
              /\ q.res.status >= 500

C9_Witness ==
    \E q \in Seen : q.fresh /\ q.saved = "ok" /\ "generateToken" \in q.ran

\* C10: the secret a saved session holds is never replaced or cleared by a
\* later step, and a request whose session was loaded with a secret keeps it.
C10_SecretNeverReplaced ==
    [][ /\ \A s \in 1..MaxSessions :
             (sessions[s].exists /\ sessions[s].csrfSecret # 0) =>
                 /\ sessions'[s].exists
                 /\ sessions'[s].csrfSecret = sessions[s].csrfSecret
        /\ \A q \in Seen :
             q.loaded.csrfSecret # 0 => q.session.csrfSecret = q.loaded.csrfSecret ]_vars

C10_Witness ==
    /\ Answered(last, "/login")
    /\ ~last.fresh
    /\ last.loaded.csrfSecret # 0
    /\ sessions[last.sid].csrfSecret = last.session.csrfSecret
    /\ sessions[last.sid].user # NoIdentity

====
